---- MODULE Spec2Model ----
(***************************************************************************)
(* Model of the Data Lake client's two hand-written engines:               *)
(*   - DataLakePathClient.setAccessControlRecursiveInternal (the recursive *)
(*     ACL batch loop) behind its three public wrappers, specification     *)
(*     SpecAcl;                                                            *)
(*   - DataLakeFileClient.uploadSeekableInternal (the chunked upload over  *)
(*     the Batch worker pool), specification SpecUpload;                   *)
(* of either of them (SpecEngines), and of DataLakePathClient's move,      *)
(* createIfNotExists, delete and deleteIfExists (SpecPath).                *)
(* One action is one synchronous run of the code between two awaits: the   *)
(* JavaScript event loop runs such a stretch without interleaving.         *)
(* DataLakeFileClient.uploadStream is outside this development: no         *)
(* property concerns it, and its BufferScheduler is not among the sources. *)
(***************************************************************************)
EXTENDS Integers, Sequences, FiniteSets, TLC

(***************************************************************************)
(* Optional values.  A JavaScript value that may be undefined is a         *)
(* sequence: <<>> is undefined, <<v>> is the value v.                      *)
(***************************************************************************)
Undefined == <<>>

Some(v) == <<v>>

\* `x || 0` on an optional number: undefined and 0 both give 0.
OrZero(o) == IF o = Undefined THEN 0 ELSE o[1]

\* Truthiness of an optional string: undefined and "" are falsy.
TruthyToken(t) == t # Undefined /\ t[1] # ""

\* Truthiness of an optional number: undefined and 0 are falsy.
TruthyNum(o) == o # Undefined /\ o[1] # 0

(***************************************************************************)
(* Bounds of the model.                                                    *)
(***************************************************************************)
\* The server finishes the tree within MaxCalls batches: the response to
\* call number MaxCalls carries no continuation.
MaxCalls == 3

(***************************************************************************)
(* Input and response domains of the recursive ACL change.                 *)
(***************************************************************************)
Modes == {"set", "modify", "remove"}

\* Serialized ACLs (the result of toAclString) are opaque to the loop.
AclStrings == {"user::rwx"}

Tokens == {Undefined, Some(""), Some("A"), Some("B")}

CallerTokens == {Undefined, Some(""), Some("B")}

BatchSizes == {Undefined, Some(0), Some(2)}

MaxBatchesValues == {Undefined} \cup {Some(n) : n \in (-1)..MaxCalls}

\* The counts a batch response may carry: all missing, or present values
\* that differ per field.
BatchCounts ==
    { [failureCount |-> Undefined, directoriesSuccessful |-> Undefined,
       filesSuccessful |-> Undefined],
      [failureCount |-> Some(1), directoriesSuccessful |-> Some(0),
       filesSuccessful |-> Some(2)],
      [failureCount |-> Some(0), directoriesSuccessful |-> Some(3),
       filesSuccessful |-> Undefined] }

\* Errors the remote operation layer may throw.
RemoteErrors == {"RestError", "AbortError"}

\* The errors a remote call may reject with: an AbortError only once the
\* caller's abort signal has been triggered.
TransportErrors(signalAborted) ==
    IF signalAborted THEN RemoteErrors ELSE RemoteErrors \ {"AbortError"}

(***************************************************************************)
(* Limits imported from ./utils/constants, scaled down so that every case  *)
(* of the upload is reached with small sizes.  The relations of the real   *)
(* values are kept: DEFAULT_CHUNK_SIZE < MAX_CHUNK_SIZE, the single upload *)
(* threshold equals MAX_CHUNK_SIZE, and FILE_MAX_SIZE_BYTES is             *)
(* BLOCK_BLOB_MAX_BLOCKS * FILE_UPLOAD_MAX_CHUNK_SIZE.                     *)
(***************************************************************************)
BLOCK_BLOB_MAX_BLOCKS == 3

FILE_UPLOAD_MAX_CHUNK_SIZE == 4

FILE_UPLOAD_DEFAULT_CHUNK_SIZE == 2

FILE_MAX_SINGLE_UPLOAD_THRESHOLD == 4

FILE_MAX_SIZE_BYTES == 12

DEFAULT_HIGH_LEVEL_CONCURRENCY == 2

\* Largest maxConcurrency option the model supplies.
MaxConcurrency == 3

(***************************************************************************)
(* Input domains of the upload.                                            *)
(***************************************************************************)
UploadSizes == 0..(FILE_MAX_SIZE_BYTES + 1)

ChunkSizes == {Undefined} \cup {Some(n) : n \in (-1)..(FILE_UPLOAD_MAX_CHUNK_SIZE + 1)}

Concurrencies == {Undefined} \cup {Some(n) : n \in (-1)..MaxConcurrency}

Thresholds ==
    {Undefined} \cup {Some(n) : n \in {-1, 0, 1, 2, FILE_MAX_SINGLE_UPLOAD_THRESHOLD + 1}}

VARIABLES
    \* ---- recursive ACL change ----
    aclMode,            \* mode argument
    aclString,          \* toAclString(acl)
    aclOptions,         \* options argument
    aclPc,              \* "start", "calling", "done", "failed" ("idle": not called)
    aclResult,          \* the result object (counters, continuationToken)
    continuationToken,  \* the loop's local continuationToken
    batchCounter,       \* the loop's local batchCounter
    aclCalls,           \* requests issued to pathContext.setAccessControlRecursive
    aclResponses,       \* outcomes of those requests, in order
    aclProgress,        \* AccessControlChanges events handed to options.onProgress
    aclError,           \* the error the operation rejected with
    wrapperSpan,        \* the span of the public wrapper (set/update/remove...Recursive)
    aclSpan,            \* the span of setAccessControlRecursiveInternal
    \* ---- uploadSeekableInternal ----
    upGiven,            \* options argument as the caller supplied it
    upSize,             \* size argument
    upOptions,          \* options argument (the code assigns its fields)
    createRes,          \* the promise createRes: "none", "pending", "fulfilled",
                        \* "rejected"
    upPc,               \* "start", "creating", "appending", "batch", "flushing",
                        \* "done", "failed" ("idle": not called)
    upCalls,            \* remote calls issued (create, append, flush), in order
    batch,              \* the Batch object
    inFlight,           \* chunk indices whose append is awaiting its response
    settled,            \* chunk indices whose operation has resolved or rejected
                        \* and which the pool has not handled yet, in that order
    appended,           \* append calls the service acknowledged, in order
    failedChunks,       \* chunk indices whose append was rejected
    chunkErrors,        \* the rejections of those appends, in order
    transferProgress,   \* the local transferProgress
    upProgress,         \* loadedBytes values handed to options.onProgress
    upResult,           \* the response the operation resolved with
    upError,            \* the error the operation rejected with
    \* ---- move, createIfNotExists, delete, deleteIfExists ----
    pathOp,             \* the operation called ("idle": none)
    pathArgs,           \* its arguments
    pathPc,             \* "start", "calling", "returning", "done", "failed" ("idle": not called)
    pathCalls,          \* requests issued to pathContext (create, delete), in order
    pathResponses,      \* outcomes of those requests, in order
    pathResult,         \* what the operation resolved with
    pathError,          \* the error the operation rejected with
    pathSpan,           \* the span the operation created
    innerSpan,          \* the span of the create / delete that *IfNotExists /
                        \* *IfExists calls
    \* ---- the caller's options.abortSignal ----
    aborted             \* abortSignal.aborted

aclVars == <<aclMode, aclString, aclOptions, aclPc, aclResult, continuationToken,
             batchCounter, aclCalls, aclResponses, aclProgress, aclError,
             wrapperSpan, aclSpan>>

upVars == <<upGiven, upSize, upOptions, createRes, upPc, upCalls, batch, inFlight, settled,
            appended, failedChunks, chunkErrors, transferProgress, upProgress, upResult, upError>>

pathVars == <<pathOp, pathArgs, pathPc, pathCalls, pathResponses, pathResult,
              pathError, pathSpan, innerSpan>>

sigVars == <<aborted>>

vars == <<aclVars, upVars, pathVars, sigVars>>

NoError == [kind |-> "none", inner |-> "none", continuationToken |-> Undefined]

(***************************************************************************)
(* Tracing spans.                                                          *)
(***************************************************************************)
\* A span that createSpan has not created yet.
NoSpan == [created |-> FALSE, status |-> "unset", ended |-> FALSE]

\* createSpan(...)
NewSpan == [created |-> TRUE, status |-> "unset", ended |-> FALSE]

\* span.setStatus({ code, message })
SetStatus(span, code) == [span EXCEPT !.status = code]

\* span.end()
EndSpan(span) == [span EXCEPT !.ended = TRUE]

\* catch (e) { span.setStatus(UNKNOWN); throw e } finally { span.end() }
EndFailed(span) == EndSpan(SetStatus(span, "UNKNOWN"))

(***************************************************************************)
(* State of the single-call operations before they are called.             *)
(***************************************************************************)
NoPathArgs ==
    [destinationFileSystem |-> Undefined, destinationPath |-> <<>>,
     resourceType |-> Undefined, conditions |-> Undefined, recursive |-> Undefined]

NoPathResult == [returned |-> FALSE, succeeded |-> Undefined, response |-> Undefined]

NoPathError == [kind |-> "none", errorCode |-> Undefined]

\* The working state of an operation before it has done anything.
PathFresh ==
    /\ pathCalls = <<>>
    /\ pathResponses = <<>>
    /\ pathResult = NoPathResult
    /\ pathError = NoPathError
    /\ pathSpan = NoSpan
    /\ innerSpan = NoSpan

\* None of move, createIfNotExists, delete, deleteIfExists is running.
PathIdle ==
    /\ pathOp = "idle"
    /\ pathArgs = NoPathArgs
    /\ pathPc = "idle"
    /\ PathFresh

(***************************************************************************)
(* setAccessControlRecursiveInternal                                       *)
(***************************************************************************)
\* options.maxBatches !== undefined && options.maxBatches < 1
MaxBatchesInvalid(options) ==
    options.maxBatches # Undefined /\ options.maxBatches[1] < 1

\* Mutant: the check lets 0 through (< 0 for < 1).
BatchSizeInvalid_AllowsZero(options) ==
    options.batchSize # Undefined /\ options.batchSize[1] < 0

\* options.batchSize !== undefined && options.batchSize < 1
BatchSizeInvalid(options) ==
    options.batchSize # Undefined /\ options.batchSize[1] < 1

EmptyResult ==
    [counters |-> [failedChangesCount |-> 0, changedDirectoriesCount |-> 0,
                   changedFilesCount |-> 0],
     continuationToken |-> Undefined]

\* The argument of pathContext.setAccessControlRecursive(mode, {...}).
\* Mutant: every request carries the caller's token.
AclRequest_CallerToken(mode, acl, options, token) ==
    [mode |-> mode, acl |-> acl, maxRecords |-> options.batchSize,
     continuation |-> options.continuationToken, forceFlag |-> options.continueOnFailure]

\* The options object handed to pathContext.setAccessControlRecursive.
AclRequest(mode, acl, options, token) ==
    [mode |-> mode, acl |-> acl, maxRecords |-> options.batchSize,
     continuation |-> token, forceFlag |-> options.continueOnFailure]

\* Mutant: the error is built without the continuation token.
AclChangeFailed_NoToken(e, token) ==
    [kind |-> "DataLakeAclChangeFailedError", inner |-> e, continuationToken |-> Undefined]

\* new DataLakeAclChangeFailedError(e, continuationToken)
AclChangeFailed(e, token) ==
    [kind |-> "DataLakeAclChangeFailedError", inner |-> e, continuationToken |-> token]

\* Mutant: files are added to the directories counter.
UpdateResult_FilesAsDirectories(result, response) ==
    [counters |->
        [failedChangesCount |->
            result.counters.failedChangesCount + OrZero(response.failureCount),
         changedDirectoriesCount |->
            result.counters.changedDirectoriesCount + OrZero(response.directoriesSuccessful)
                + OrZero(response.filesSuccessful),
         changedFilesCount |-> result.counters.changedFilesCount],
     continuationToken |-> response.continuation]

\* The result object after the "Update result" block.
UpdateResult(result, response) ==
    [counters |->
        [failedChangesCount |->
            result.counters.failedChangesCount + OrZero(response.failureCount),
         changedDirectoriesCount |->
            result.counters.changedDirectoriesCount + OrZero(response.directoriesSuccessful),
         changedFilesCount |->
            result.counters.changedFilesCount + OrZero(response.filesSuccessful)],
     continuationToken |-> response.continuation]

\* The identity of the object `result.counters`.
ResultCounters == "result.counters"

\* Mutant: the event repeats the batch's counts as the aggregate.
ProgressEvent_BatchAsAggregate(result, response) ==
    [batchCounters |->
        [failedChangesCount |-> OrZero(response.failureCount),
         changedDirectoriesCount |-> OrZero(response.directoriesSuccessful),
         changedFilesCount |-> OrZero(response.filesSuccessful)],
     aggregateCounters |->
        [failedChangesCount |-> OrZero(response.failureCount),
         changedDirectoriesCount |-> OrZero(response.directoriesSuccessful),
         changedFilesCount |-> OrZero(response.filesSuccessful)],
     aggregateCountersObject |-> ResultCounters,
     continuationToken |-> response.continuation]

\* The AccessControlChanges object built for options.onProgress.  Its
\* aggregateCounters field is the result's own counters object, not a copy:
\* aggregateCounters is what the object holds when the callback is called,
\* aggregateCountersObject says which object it is.
ProgressEvent(result, response) ==
    [batchCounters |->
        [failedChangesCount |-> OrZero(response.failureCount),
         changedDirectoriesCount |-> OrZero(response.directoriesSuccessful),
         changedFilesCount |-> OrZero(response.filesSuccessful)],
     aggregateCounters |-> result.counters,
     aggregateCountersObject |-> ResultCounters,
     continuationToken |-> response.continuation]

\* Mutant: the callback's exception is wrapped like a failed batch.
Rethrown_Wrapped(e) ==
    [kind |-> "DataLakeAclChangeFailedError", inner |-> e, continuationToken |-> Undefined]

\* The outer catch: `throw e`, the exception leaves the operation as it is.
Rethrown(e) == [kind |-> e, inner |-> "none", continuationToken |-> Undefined]

\* Mutant: off by one (> for >=).
ReachMaxBatches_OffByOne(options, counter) ==
    IF options.maxBatches = Undefined THEN FALSE ELSE counter > options.maxBatches[1]

\* reachMaxBatches = maxBatches === undefined ? false : batchCounter >= maxBatches
ReachMaxBatches(options, counter) ==
    IF options.maxBatches = Undefined THEN FALSE ELSE counter >= options.maxBatches[1]

\* Mutant: the loop goes on at maxBatches.
LoopContinues_IgnoresMax(token, reach) == TruthyToken(token)

\* while (continuationToken && !reachMaxBatches)
LoopContinues(token, reach) == TruthyToken(token) /\ ~reach

\* The Batch object before `new Batch(...)` has run.
NoBatch ==
    [constructed |-> FALSE, concurrency |-> 0, operations |-> <<>>, actives |-> 0,
     completed |-> 0, offset |-> 0, state |-> "Good"]

NoUploadError == [kind |-> "none", message |-> "none"]

\* The upload's working state before the operation has done anything.
UploadFresh ==
    /\ createRes = "none"
    /\ upCalls = <<>>
    /\ batch = NoBatch
    /\ inFlight = {}
    /\ settled = <<>>
    /\ appended = <<>>
    /\ failedChunks = {}
    /\ chunkErrors = <<>>
    /\ transferProgress = 0
    /\ upProgress = <<>>
    /\ upResult = "none"
    /\ upError = NoUploadError

\* No upload is running (the state of the upload under SpecAcl).
UploadIdle ==
    /\ upSize = 0
    /\ upOptions = [chunkSize |-> Undefined, maxConcurrency |-> Undefined,
                    singleUploadThreshold |-> Undefined, onProgress |-> FALSE]
    /\ upPc = "idle"
    /\ upGiven = upOptions
    /\ UploadFresh

InitAcl ==
    /\ aclMode \in Modes
    /\ aclString \in AclStrings
    /\ aclOptions \in [maxBatches : MaxBatchesValues, batchSize : BatchSizes,
                       continuationToken : CallerTokens,
                       continueOnFailure : {Undefined, Some(TRUE)},
                       onProgress : BOOLEAN]
    /\ aclPc = "start"
    /\ aclResult = EmptyResult
    /\ continuationToken = Undefined
    /\ batchCounter = 0
    /\ aclCalls = <<>>
    /\ aclResponses = <<>>
    /\ aclProgress = <<>>
    /\ aclError = NoError
    /\ wrapperSpan = NoSpan
    /\ aclSpan = NoSpan
    /\ aborted \in BOOLEAN
    /\ UploadIdle
    /\ PathIdle

\* Entry through the public wrapper of the mode: it creates its span and
\* calls the internal operation, whose two range checks throw before anything
\* else (the promise it returns is rejected); otherwise the internal span is
\* created, the loop is entered and the first request is issued.  The wrapper
\* returns the promise without awaiting it, so its finally block ends its
\* span in the same run and its catch block never sees a rejection.
AclStart ==
    /\ aclPc = "start"
    /\ IF MaxBatchesInvalid(aclOptions) \/ BatchSizeInvalid(aclOptions)
       THEN /\ aclPc' = "failed"
            /\ aclError' = [NoError EXCEPT !.kind = "RangeError"]
            /\ UNCHANGED <<continuationToken, aclCalls, aclSpan>>
       ELSE /\ aclPc' = "calling"
            /\ aclSpan' = NewSpan
            /\ continuationToken' = aclOptions.continuationToken
            /\ aclCalls' = <<AclRequest(aclMode, aclString, aclOptions,
                                        aclOptions.continuationToken)>>
            /\ UNCHANGED aclError
    /\ wrapperSpan' = EndSpan(NewSpan)
    /\ UNCHANGED <<aclMode, aclString, aclOptions, aclResult, batchCounter,
                   aclResponses, aclProgress>>
    /\ UNCHANGED <<upVars, pathVars, sigVars>>

\* The awaited request rejects with e: the catch wraps it and the operation
\* rejects.
AclBatchFails ==
    /\ aclPc = "calling"
    /\ \E e \in TransportErrors(aborted) :
        /\ aclResponses' = Append(aclResponses, [ok |-> FALSE, error |-> e])
        /\ aclError' = AclChangeFailed(e, continuationToken)
    /\ aclPc' = "failed"
    /\ aclSpan' = EndFailed(aclSpan)
    /\ UNCHANGED <<aclMode, aclString, aclOptions, aclResult, continuationToken,
                   batchCounter, aclCalls, aclProgress, wrapperSpan>>
    /\ UNCHANGED <<upVars, pathVars, sigVars>>

\* The responses the server may give to call number n.
ServerResponses(n) ==
    { [ok |-> TRUE, continuation |-> t, failureCount |-> c.failureCount,
       directoriesSuccessful |-> c.directoriesSuccessful,
       filesSuccessful |-> c.filesSuccessful] :
        t \in IF n >= MaxCalls THEN {Undefined, Some("")} ELSE Tokens,
        c \in BatchCounts }

\* The awaited request resolves: the rest of the loop body runs, then the
\* loop test, then either the next request is issued or the result returned.
\* The callback may throw, which leaves the loop through the outer catch.
AclBatchSucceeds ==
    /\ aclPc = "calling"
    /\ \E response \in ServerResponses(Len(aclCalls)),
          throws \in IF aclOptions.onProgress THEN BOOLEAN ELSE {FALSE} :
        LET counter  == batchCounter + 1
            token    == response.continuation
            result   == UpdateResult(aclResult, response)
            reach    == ReachMaxBatches(aclOptions, counter)
        IN  /\ aclResponses' = Append(aclResponses, response)
            /\ batchCounter' = counter
            /\ continuationToken' = token
            /\ aclResult' = result
            /\ aclProgress' = IF aclOptions.onProgress
                              THEN Append(aclProgress, ProgressEvent(result, response))
                              ELSE aclProgress
            /\ IF throws
               THEN /\ aclPc' = "failed"
                    /\ aclError' = Rethrown("CallbackError")
                    /\ aclSpan' = EndFailed(aclSpan)
                    /\ UNCHANGED aclCalls
               ELSE IF LoopContinues(token, reach)
               THEN /\ aclPc' = "calling"
                    /\ aclCalls' = Append(aclCalls,
                            AclRequest(aclMode, aclString, aclOptions, token))
                    /\ UNCHANGED <<aclError, aclSpan>>
               ELSE /\ aclPc' = "done"
                    /\ aclSpan' = EndSpan(aclSpan)
                    /\ UNCHANGED <<aclCalls, aclError>>
    /\ UNCHANGED <<aclMode, aclString, aclOptions, wrapperSpan>>
    /\ UNCHANGED <<upVars, pathVars, sigVars>>

\* The caller triggers the abort signal: the signal is the caller's, who
\* may do so at any time.
AbortTriggered ==
    /\ ~aborted
    /\ aborted' = TRUE
    /\ UNCHANGED <<aclVars, upVars, pathVars>>

NextAcl == AclStart \/ AclBatchFails \/ AclBatchSucceeds \/ AbortTriggered

SpecAcl == InitAcl /\ [][NextAcl]_vars

(***************************************************************************)
(* Batch (./utils/Batch): a pool running queued operations with at most    *)
(* `concurrency` of them active.                                           *)
(***************************************************************************)
\* new Batch(concurrency)
NewBatch(concurrency) == [NoBatch EXCEPT !.constructed = TRUE, !.concurrency = concurrency]

\* batch.addOperation(op): the operation is queued, nothing starts.
AddOperation(b, op) == [b EXCEPT !.operations = Append(@, op)]

\* The dispatch loop of the pool: start queued operations, in queue order,
\* while fewer than `concurrency` are active.
RECURSIVE StartLoop(_)
StartLoop(b) ==
    IF b.actives < b.concurrency /\ b.offset < Len(b.operations)
    THEN StartLoop([b EXCEPT !.actives = @ + 1, !.offset = @ + 1])
    ELSE b

\* Every queued operation has completed and none has failed: do() resolves.
BatchFinished(b) == b.state = "Good" /\ b.completed >= Len(b.operations)

\* Mutant: the dispatch goes on after a failure.
ParallelExecute_IgnoresError(b) ==
    IF b.completed >= Len(b.operations) THEN b ELSE StartLoop(b)

\* One dispatch round: nothing after a failure or after the finish.
ParallelExecute(b) ==
    IF b.state = "Error" \/ b.completed >= Len(b.operations) THEN b ELSE StartLoop(b)

\* An operation of the pool resolved.
OperationCompleted(b) ==
    ParallelExecute([b EXCEPT !.actives = @ - 1, !.completed = @ + 1])

\* Mutant: the pool takes no notice of a rejected operation.
OperationFailed_Ignored(b) == b

\* An operation of the pool rejected: the pool enters its error state.
OperationFailed(b) == [b EXCEPT !.state = "Error"]

\* The operations a dispatch round started, in start order.
StartedBy(before, after) ==
    [k \in 1..(after.offset - before.offset) |-> before.operations[before.offset + k]]

(***************************************************************************)
(* uploadSeekableInternal                                                  *)
(***************************************************************************)
\* Math.ceil(a / b) for a >= 0, b > 0
Ceil(a, b) == (a + b - 1) \div b

\* Mutant: the derived chunk size is not raised to the default.
ResolveChunkSize_NoDefault(size, options) ==
    IF TruthyNum(options.chunkSize) THEN options
    ELSE [options EXCEPT !.chunkSize = Some(Ceil(size, BLOCK_BLOB_MAX_BLOCKS))]

\* if (!options.chunkSize) { ... }: undefined and 0 are derived from size.
ResolveChunkSize(size, options) ==
    IF TruthyNum(options.chunkSize) THEN options
    ELSE LET derived == Ceil(size, BLOCK_BLOB_MAX_BLOCKS)
         IN  [options EXCEPT !.chunkSize =
                Some(IF derived < FILE_UPLOAD_DEFAULT_CHUNK_SIZE
                     THEN FILE_UPLOAD_DEFAULT_CHUNK_SIZE ELSE derived)]

\* options.chunkSize < 1 || options.chunkSize > FILE_UPLOAD_MAX_CHUNK_SIZE
ChunkSizeInvalid(options) ==
    options.chunkSize[1] < 1 \/ options.chunkSize[1] > FILE_UPLOAD_MAX_CHUNK_SIZE

\* if (!options.maxConcurrency) { ... }
ResolveConcurrency(options) ==
    IF TruthyNum(options.maxConcurrency) THEN options
    ELSE [options EXCEPT !.maxConcurrency = Some(DEFAULT_HIGH_LEVEL_CONCURRENCY)]

\* options.maxConcurrency <= 0
ConcurrencyInvalid(options) == options.maxConcurrency[1] <= 0

\* if (!options.singleUploadThreshold) { ... }
ResolveThreshold(options) ==
    IF TruthyNum(options.singleUploadThreshold) THEN options
    ELSE [options EXCEPT !.singleUploadThreshold = Some(FILE_MAX_SINGLE_UPLOAD_THRESHOLD)]

\* singleUploadThreshold < 1 || singleUploadThreshold > FILE_MAX_SINGLE_UPLOAD_THRESHOLD
ThresholdInvalid(options) ==
    \/ options.singleUploadThreshold[1] < 1
    \/ options.singleUploadThreshold[1] > FILE_MAX_SINGLE_UPLOAD_THRESHOLD

\* The options object after all three defaults were applied.
ResolvedOptions(size, options) ==
    ResolveThreshold(ResolveConcurrency(ResolveChunkSize(size, options)))

\* The first range check that throws after the file was created, or "none".
\* The checks run in source order, each on the options resolved so far.
OptionRangeError(size, options) ==
    LET o1 == ResolveChunkSize(size, options)
        o2 == ResolveConcurrency(o1)
        o3 == ResolveThreshold(o2)
    IN  IF ChunkSizeInvalid(o1) THEN "chunkSize"
        ELSE IF ConcurrencyInvalid(o2) THEN "maxConcurrency"
        ELSE IF ThresholdInvalid(o3) THEN "singleUploadThreshold"
        ELSE "none"

\* The options object as the code left it when that check threw.
OptionsAtError(size, options, check) ==
    LET o1 == ResolveChunkSize(size, options)
        o2 == ResolveConcurrency(o1)
    IN  IF check = "chunkSize" THEN o1
        ELSE IF check = "maxConcurrency" THEN o2
        ELSE ResolveThreshold(o2)

\* Mutant: the empty-payload return is never taken.
IsEmptyUpload_Never(size) == size < 0

\* size === 0
IsEmptyUpload(size) == size = 0

\* Mutant: the size check is missing.
SizeTooLarge_Never(size) == FALSE

\* size > FILE_MAX_SIZE_BYTES
SizeTooLarge(size) == size > FILE_MAX_SIZE_BYTES

\* Mutant: a payload of exactly the threshold goes to the pool (< for <=).
SingleShot_Strict(size, options) == size < options.singleUploadThreshold[1]

\* size <= options.singleUploadThreshold
SingleShot(size, options) == size <= options.singleUploadThreshold[1]

\* Mutant: one block too many when chunkSize divides size.
NumBlocks_FloorPlusOne(size, options) == (size \div options.chunkSize[1]) + 1

\* Math.floor((size - 1) / options.chunkSize) + 1
NumBlocks(size, options) == ((size - 1) \div options.chunkSize[1]) + 1

\* Mutant: one block too many is let through.
TooManyBlocks_OneMore(numBlocks) == numBlocks > BLOCK_BLOB_MAX_BLOCKS + 1

\* numBlocks > BLOCK_BLOB_MAX_BLOCKS
TooManyBlocks(numBlocks) == numBlocks > BLOCK_BLOB_MAX_BLOCKS

\* start, end and contentLength of the operation queued for index i.
Chunk(i, size, options, numBlocks) ==
    LET start == options.chunkSize[1] * i
        end   == IF i = numBlocks - 1 THEN size ELSE start + options.chunkSize[1]
    IN  [index |-> i, start |-> start, contentLength |-> end - start]

CreateCall == [op |-> "create", position |-> 0, contentLength |-> 0]

\* this.append(body, offset, length): appendData with position and contentLength.
AppendCall(offset, length) == [op |-> "append", position |-> offset, contentLength |-> length]

\* Mutant: the flush position is rounded up to whole chunks.
FlushPosition_WholeChunks(size, options) ==
    options.chunkSize[1] * ((size + options.chunkSize[1] - 1) \div options.chunkSize[1])

\* The position handed to this.flush.
FlushPosition(size, options) == size

\* this.flush(position): flushData with position and contentLength 0.
FlushCall(position) == [op |-> "flush", position |-> position, contentLength |-> 0]

\* Mutant: the pool is sized one above the option.
UploadBatchConcurrency_OneMore(options) == options.maxConcurrency[1] + 1

\* new Batch(options.maxConcurrency)
UploadBatchConcurrency(options) == options.maxConcurrency[1]

\* The for loop: one operation per block index 0 .. numBlocks - 1.
QueueChunks(b, numBlocks) ==
    LET q[n \in 0..numBlocks] == IF n = 0 THEN b ELSE AddOperation(q[n - 1], n - 1)
    IN  q[numBlocks]

\* Mutant: the total is overwritten with the chunk's length (= for +=).
AddProgress_Overwrite(progress, contentLength) == contentLength

\* transferProgress += contentLength
AddProgress(progress, contentLength) == progress + contentLength

\* The append calls issued by the operations a dispatch round started.
AppendCallsOf(started, size, options) ==
    [k \in 1..Len(started) |->
        LET c == Chunk(started[k], size, options, NumBlocks(size, options))
        IN  AppendCall(c.start, c.contentLength)]

RangeError(what) == [kind |-> "RangeError", message |-> what]

\* Mutant: the cause is replaced by a generic error.
RemoteError_Generic(e) == [kind |-> "Error", message |-> "remote"]

\* The exception of a throwing options.onProgress, rethrown likewise.
CallbackError == [kind |-> "CallbackError", message |-> "callback"]

\* The values the transport may report to the request's progress listener:
\* the bytes sent so far, more at every report, at most the body's length.
TransportProgress(reported, length) ==
    {n \in 1..length : reported = <<>> \/ n > reported[Len(reported)]}

\* An error of the remote layer, rethrown as it is by the catch block.
RemoteError(e) == [kind |-> e, message |-> "remote"]

\* No recursive ACL change is running (the state of the loop under SpecUpload).
AclIdle ==
    /\ aclMode = "set"
    /\ aclString = "user::rwx"
    /\ aclOptions = [maxBatches |-> Undefined, batchSize |-> Undefined,
                     continuationToken |-> Undefined, continueOnFailure |-> Undefined,
                     onProgress |-> FALSE]
    /\ aclPc = "idle"
    /\ aclResult = EmptyResult
    /\ continuationToken = Undefined
    /\ batchCounter = 0
    /\ aclCalls = <<>>
    /\ aclResponses = <<>>
    /\ aclProgress = <<>>
    /\ aclError = NoError
    /\ wrapperSpan = NoSpan
    /\ aclSpan = NoSpan

InitUpload ==
    /\ upSize \in UploadSizes
    /\ upOptions \in [chunkSize : ChunkSizes, maxConcurrency : Concurrencies,
                      singleUploadThreshold : Thresholds, onProgress : BOOLEAN]
    /\ upPc = "start"
    /\ upGiven = upOptions
    /\ UploadFresh
    /\ aborted \in BOOLEAN
    /\ AclIdle
    /\ PathIdle

\* Entry: the size check throws before anything else; otherwise this.create
\* is called and its request goes out.
UploadStart ==
    /\ upPc = "start"
    /\ IF SizeTooLarge(upSize)
       THEN /\ upPc' = "failed"
            /\ upError' = RangeError("size")
            /\ UNCHANGED <<upCalls, createRes>>
       ELSE /\ upPc' = "creating"
            /\ upCalls' = Append(upCalls, CreateCall)
            /\ createRes' = "pending"
            /\ UNCHANGED upError
    /\ UNCHANGED <<settled, upGiven, upSize, upOptions, batch, inFlight, appended, failedChunks,
                   chunkErrors, transferProgress, upProgress, upResult>>
    /\ UNCHANGED <<aclVars, pathVars, sigVars>>

\* Mutant: the rejection of createRes is swallowed and the append goes out.
CreateFails_Swallowed ==
    /\ upPc = "creating"
    /\ createRes' = "rejected"
    /\ upPc' = "appending"
    /\ upCalls' = Append(upCalls, AppendCall(0, upSize))
    /\ UNCHANGED <<settled, upGiven, upSize, upOptions, batch, inFlight, appended,
                   failedChunks, chunkErrors, transferProgress, upProgress, upResult,
                   upError>>
    /\ UNCHANGED <<aclVars, pathVars, sigVars>>

\* await createRes rejects.
CreateFails ==
    /\ upPc = "creating"
    /\ \E e \in TransportErrors(aborted) : upError' = RemoteError(e)
    /\ createRes' = "rejected"
    /\ upPc' = "failed"
    /\ UNCHANGED <<settled, upGiven, upSize, upOptions, upCalls, batch, inFlight, appended,
                   failedChunks, chunkErrors, transferProgress, upProgress, upResult>>
    /\ UNCHANGED <<aclVars, pathVars, sigVars>>

\* createRes resolves and size is 0: the create response is returned.
CreateSucceedsEmpty ==
    /\ upPc = "creating"
    /\ createRes' = "fulfilled"
    /\ IsEmptyUpload(upSize)
    /\ upPc' = "done"
    /\ upResult' = "createResponse"
    /\ UNCHANGED <<settled, upGiven, upSize, upOptions, upCalls, batch, inFlight, appended,
                   failedChunks, chunkErrors, transferProgress, upProgress, upError>>
    /\ UNCHANGED <<aclVars, pathVars, sigVars>>

\* createRes resolves, size > 0, and a range check on the options throws.
CreateSucceedsRejected ==
    /\ upPc = "creating"
    /\ createRes' = "fulfilled"
    /\ ~IsEmptyUpload(upSize)
    /\ LET check == OptionRangeError(upSize, upOptions)
           o     == ResolvedOptions(upSize, upOptions)
           blocks == check = "none" /\ ~SingleShot(upSize, o)
                        /\ TooManyBlocks(NumBlocks(upSize, o))
       IN  /\ check # "none" \/ blocks
           /\ upError' = RangeError(IF blocks THEN "numBlocks" ELSE check)
           /\ upOptions' = OptionsAtError(upSize, upOptions, check)
    /\ upPc' = "failed"
    /\ UNCHANGED <<settled, upGiven, upSize, upCalls, batch, inFlight, appended, failedChunks,
                   chunkErrors, transferProgress, upProgress, upResult>>
    /\ UNCHANGED <<aclVars, pathVars, sigVars>>

\* createRes resolves, the options pass, size <= singleUploadThreshold: one
\* append of the whole payload is issued.
CreateSucceedsSingle ==
    /\ upPc = "creating"
    /\ createRes' = "fulfilled"
    /\ ~IsEmptyUpload(upSize)
    /\ OptionRangeError(upSize, upOptions) = "none"
    /\ LET o == ResolvedOptions(upSize, upOptions)
       IN  /\ SingleShot(upSize, o)
           /\ upOptions' = o
           /\ upCalls' = Append(upCalls, AppendCall(0, upSize))
    /\ upPc' = "appending"
    /\ UNCHANGED <<settled, upGiven, upSize, batch, inFlight, appended, failedChunks, chunkErrors,
                   transferProgress, upProgress, upResult, upError>>
    /\ UNCHANGED <<aclVars, pathVars, sigVars>>

\* createRes resolves, the options pass, size > singleUploadThreshold: the
\* Batch is built, one operation per block is queued, and batch.do() starts
\* the first operations, each issuing its append.
CreateSucceedsChunked ==
    /\ upPc = "creating"
    /\ createRes' = "fulfilled"
    /\ ~IsEmptyUpload(upSize)
    /\ OptionRangeError(upSize, upOptions) = "none"
    /\ LET o == ResolvedOptions(upSize, upOptions)
           numBlocks == NumBlocks(upSize, o)
           queued == QueueChunks(NewBatch(UploadBatchConcurrency(o)), numBlocks)
           running == ParallelExecute(queued)
           started == StartedBy(queued, running)
       IN  /\ ~SingleShot(upSize, o)
           /\ ~TooManyBlocks(numBlocks)
           /\ upOptions' = o
           /\ batch' = running
           /\ inFlight' = {started[k] : k \in 1..Len(started)}
           /\ upCalls' = upCalls \o AppendCallsOf(started, upSize, o)
    /\ upPc' = "batch"
    /\ UNCHANGED <<settled, upGiven, upSize, appended, failedChunks, chunkErrors,
                   transferProgress, upProgress, upResult, upError>>
    /\ UNCHANGED <<aclVars, pathVars, sigVars>>

\* The single append rejects.
SingleAppendFails ==
    /\ upPc = "appending"
    /\ \E e \in TransportErrors(aborted) : upError' = RemoteError(e)
    /\ upPc' = "failed"
    /\ UNCHANGED <<settled, createRes, upGiven, upSize, upOptions, upCalls, batch, inFlight,
                   appended, failedChunks, chunkErrors, transferProgress, upProgress, upResult>>
    /\ UNCHANGED <<aclVars, pathVars, sigVars>>

\* On the single-shot path options.onProgress is handed to append, which
\* hands it to the transport as the request's onUploadProgress listener:
\* while the append is in flight the transport may report the bytes sent.
SingleAppendProgress ==
    /\ upPc = "appending"
    /\ upOptions.onProgress
    /\ \E loadedBytes \in TransportProgress(upProgress, upSize) :
            upProgress' = Append(upProgress, loadedBytes)
    /\ UNCHANGED <<createRes, upGiven, upSize, upOptions, upPc, upCalls, batch, inFlight,
                   settled, appended, failedChunks, chunkErrors, transferProgress,
                   upResult, upError>>
    /\ UNCHANGED <<aclVars, pathVars, sigVars>>

\* The single append resolves: the flush is issued.
SingleAppendSucceeds ==
    /\ upPc = "appending"
    /\ appended' = Append(appended, upCalls[Len(upCalls)])
    /\ upCalls' = Append(upCalls, FlushCall(FlushPosition(upSize, upOptions)))
    /\ upPc' = "flushing"
    /\ UNCHANGED <<settled, createRes, upGiven, upSize, upOptions, batch, inFlight,
                   failedChunks, chunkErrors, transferProgress, upProgress, upResult, upError>>
    /\ UNCHANGED <<aclVars, pathVars, sigVars>>

\* The operations whose promise has rejected.
RejectedOperations == {chunkErrors[k].index : k \in 1..Len(chunkErrors)}

\* The places in the queue of settled operations held by rejected ones.
RejectedSettled == {k \in 1..Len(settled) : settled[k] \in RejectedOperations}

\* A sequence without its k-th element.
Without(seq, k) == SubSeq(seq, 1, k - 1) \o SubSeq(seq, k + 1, Len(seq))

\* The error batch.do() rejects with: that of the first operation to reject.
BatchError ==
    IF chunkErrors[1].error = "CallbackError" THEN CallbackError
    ELSE RemoteError(chunkErrors[1].error)

\* The append of a running operation resolves: the operation adds its
\* length to transferProgress and reports it, and its promise resolves, or
\* rejects with the callback's exception when options.onProgress throws;
\* the pool learns of either in a later job.
ChunkAppendSucceeds ==
    /\ \E i \in inFlight, throws \in IF upOptions.onProgress THEN BOOLEAN ELSE {FALSE} :
        LET c == Chunk(i, upSize, upOptions, NumBlocks(upSize, upOptions))
            progress == AddProgress(transferProgress, c.contentLength)
        IN  /\ appended' = Append(appended, AppendCall(c.start, c.contentLength))
            /\ transferProgress' = progress
            /\ upProgress' = IF upOptions.onProgress THEN Append(upProgress, progress)
                             ELSE upProgress
            /\ inFlight' = inFlight \ {i}
            /\ settled' = Append(settled, i)
            /\ chunkErrors' = IF throws
                              THEN Append(chunkErrors,
                                          [index |-> i, error |-> "CallbackError"])
                              ELSE chunkErrors
    /\ UNCHANGED <<createRes, upGiven, upSize, upOptions, upPc, upCalls, batch,
                   failedChunks, upResult, upError>>
    /\ UNCHANGED <<aclVars, pathVars, sigVars>>

\* The append of a running operation rejects: the operation's promise
\* rejects with that error; the pool learns of it in a later job.
ChunkAppendFails ==
    /\ \E i \in inFlight, e \in TransportErrors(aborted) :
        /\ inFlight' = inFlight \ {i}
        /\ failedChunks' = failedChunks \cup {i}
        /\ chunkErrors' = Append(chunkErrors, [index |-> i, error |-> e])
        /\ settled' = Append(settled, i)
    /\ UNCHANGED <<createRes, upGiven, upSize, upOptions, upPc, upCalls, batch, appended,
                   transferProgress, upProgress, upResult, upError>>
    /\ UNCHANGED <<aclVars, pathVars, sigVars>>

\* The pool handles a resolved operation: it counts it as completed and
\* dispatches again, which starts queued operations (each issuing its
\* append).  The pool is fail-fast: a failure short-circuits it, so the
\* rejection of an operation is handled before any completion still
\* waiting, and a dispatch starts nothing once an operation has failed.
OperationSettles ==
    /\ settled # <<>>
    /\ RejectedSettled = {}
    /\ LET after == OperationCompleted(batch)
           started == StartedBy(batch, after)
       IN  /\ batch' = after
           /\ inFlight' = inFlight \cup {started[k] : k \in 1..Len(started)}
           /\ upCalls' = upCalls \o AppendCallsOf(started, upSize, upOptions)
    /\ settled' = Tail(settled)
    /\ UNCHANGED <<createRes, upGiven, upSize, upOptions, upPc, appended, failedChunks,
                   chunkErrors, transferProgress, upProgress, upResult, upError>>
    /\ UNCHANGED <<aclVars, pathVars, sigVars>>

\* The pool handles a rejected operation, the earliest one waiting: it
\* enters its error state, and batch.do() rejects (with the first such
\* error).
OperationRejects ==
    /\ RejectedSettled # {}
    /\ LET first == CHOOSE k \in RejectedSettled : \A j \in RejectedSettled : k <= j
       IN  settled' = Without(settled, first)
    /\ batch' = OperationFailed(batch)
    /\ UNCHANGED <<createRes, upGiven, upSize, upOptions, upPc, upCalls, inFlight,
                   appended, failedChunks, chunkErrors, transferProgress, upProgress,
                   upResult, upError>>
    /\ UNCHANGED <<aclVars, pathVars, sigVars>>

\* Every operation has completed: batch.do() resolves, the upload resumes
\* after its await and issues the flush.
BatchResolves ==
    /\ upPc = "batch"
    /\ BatchFinished(batch)
    /\ upCalls' = Append(upCalls, FlushCall(FlushPosition(upSize, upOptions)))
    /\ upPc' = "flushing"
    /\ UNCHANGED <<createRes, upGiven, upSize, upOptions, batch, inFlight, settled,
                   appended, failedChunks, chunkErrors, transferProgress, upProgress,
                   upResult, upError>>
    /\ UNCHANGED <<aclVars, pathVars, sigVars>>

\* batch.do() has rejected: the upload resumes after its await in the catch
\* block and rethrows the error.
BatchRejects ==
    /\ upPc = "batch"
    /\ batch.state = "Error"
    /\ upPc' = "failed"
    /\ upError' = BatchError
    /\ UNCHANGED <<createRes, upGiven, upSize, upOptions, upCalls, batch, inFlight,
                   settled, appended, failedChunks, chunkErrors, transferProgress,
                   upProgress, upResult>>
    /\ UNCHANGED <<aclVars, pathVars, sigVars>>

\* The flush rejects.
FlushFails ==
    /\ upPc = "flushing"
    /\ \E e \in TransportErrors(aborted) : upError' = RemoteError(e)
    /\ upPc' = "failed"
    /\ UNCHANGED <<settled, createRes, upGiven, upSize, upOptions, upCalls, batch, inFlight,
                   appended, failedChunks, chunkErrors, transferProgress, upProgress, upResult>>
    /\ UNCHANGED <<aclVars, pathVars, sigVars>>

\* The flush resolves: its response is returned.
FlushSucceeds ==
    /\ upPc = "flushing"
    /\ upPc' = "done"
    /\ upResult' = "flushResponse"
    /\ UNCHANGED <<settled, createRes, upGiven, upSize, upOptions, upCalls, batch, inFlight,
                   appended, failedChunks, chunkErrors, transferProgress, upProgress, upError>>
    /\ UNCHANGED <<aclVars, pathVars, sigVars>>

NextUpload ==
    \/ UploadStart
    \/ CreateFails
    \/ CreateSucceedsEmpty
    \/ CreateSucceedsRejected
    \/ CreateSucceedsSingle
    \/ CreateSucceedsChunked
    \/ SingleAppendProgress
    \/ SingleAppendFails
    \/ SingleAppendSucceeds
    \/ ChunkAppendSucceeds
    \/ ChunkAppendFails
    \/ OperationSettles
    \/ OperationRejects
    \/ BatchResolves
    \/ BatchRejects
    \/ FlushFails
    \/ FlushSucceeds
    \/ AbortTriggered

SpecUpload == InitUpload /\ [][NextUpload]_vars

(***************************************************************************)
(* move, createIfNotExists, delete, deleteIfExists of DataLakePathClient    *)
(* (specification SpecPath).  A string that is split is a sequence of       *)
(* characters.                                                              *)
(***************************************************************************)
\* Destination paths handed to move: without, with one, and with more than
\* one "?".
DestinationPaths ==
    { <<>>, <<"d">>, <<"d", "?">>, <<"d", "?", "s">>, <<"?">>, <<"?", "?">>,
      <<"d", "?", "s", "?", "t">>, <<"d", "?", "?", "?">> }

DestinationFileSystems == {Undefined, Some("fs2")}

ResourceTypes == {"file", "directory"}

\* options.conditions of the caller: absent, empty, or with conditions set.
EmptyConditions == [ifMatch |-> Undefined, ifNoneMatch |-> Undefined]

CallerConditions ==
    { Undefined, Some(EmptyConditions),
      Some([ifMatch |-> Some("etag"), ifNoneMatch |-> Undefined]),
      Some([ifMatch |-> Undefined, ifNoneMatch |-> Some("etag")]) }

Recursives == {Undefined, Some(TRUE), Some(FALSE)}

\* ETagAny of ./utils/constants.
ETagAny == "*"

\* this.fileSystemName and getURLPathAndQuery(this.dfsEndpointUrl)
FileSystemName == "fs"

RenameSource == "/fs/src"

\* The errors a pathContext call may reject with; e.details may be missing.
PathErrors(signalAborted) ==
    { [kind |-> "RestError", errorCode |-> c] :
        c \in {Undefined, Some("PathAlreadyExists"), Some("PathNotFound"),
               Some("InternalError")} }
    \cup (IF signalAborted THEN {[kind |-> "AbortError", errorCode |-> Undefined]}
          ELSE {})

\* The responses pathContext.create may resolve with.
CreateResponses == {[ok |-> TRUE, continuation |-> Undefined, error |-> NoPathError]}

\* The responses pathContext.deleteMethod may resolve with to call number n;
\* the service finishes within MaxCalls calls.
DeleteResponses(n) ==
    { [ok |-> TRUE, continuation |-> t, error |-> NoPathError] :
        t \in IF n >= MaxCalls THEN {Undefined, Some("")} ELSE Tokens }

\* The outcome of a rejected call, as logged.
Rejected(e) == [ok |-> FALSE, continuation |-> Undefined, error |-> e]

\* destinationPath.split("?")
RECURSIVE Split(_)
Split(path) ==
    IF \E i \in 1..Len(path) : path[i] = "?"
    THEN LET i == CHOOSE i \in 1..Len(path) :
                    path[i] = "?" /\ \A j \in 1..(i - 1) : path[j] # "?"
         IN  <<SubSeq(path, 1, i - 1)>> \o Split(SubSeq(path, i + 1, Len(path)))
    ELSE <<path>>

\* Mutant: a third segment is let through.
MoveRejected_AllowsThree(path) == Len(Split(path)) > 3

\* move throws the RangeError: split.length is neither 2 nor 1.
MoveRejected(path) == Len(Split(path)) # 2 /\ Len(Split(path)) # 1

\* The file system of the destination: the first argument of the
\* three-argument overload, else this.fileSystemName.
DestinationFileSystem(args) ==
    IF args.destinationFileSystem = Undefined THEN FileSystemName
    ELSE args.destinationFileSystem[1]

\* destinationUrl: the path is set from the part before the "?", the
\* queries from the part after it.
DestinationUrl(fileSystem, path) ==
    LET split == Split(path)
    IN  IF Len(split) = 2
        THEN [fileSystem |-> fileSystem, path |-> split[1], queries |-> Some(split[2])]
        ELSE [fileSystem |-> fileSystem, path |-> path, queries |-> Undefined]

\* The request move hands to destPathClient.pathContext.create.
MoveCall(args) ==
    [op |-> "create",
     url |-> Some(DestinationUrl(DestinationFileSystem(args), args.destinationPath)),
     mode |-> Some("legacy"), renameSource |-> Some(RenameSource),
     resource |-> Undefined, continuation |-> Undefined, recursive |-> Undefined,
     leaseAccessConditions |-> EmptyConditions,
     modifiedAccessConditions |-> EmptyConditions]

\* options.conditions = options.conditions || {}
OrEmpty(conditions) == IF conditions = Undefined THEN EmptyConditions ELSE conditions[1]

\* The request this.create hands to pathContext.create.
PathCreateCall(resourceType, conditions) ==
    [op |-> "create", url |-> Undefined, mode |-> Undefined, renameSource |-> Undefined,
     resource |-> Some(resourceType), continuation |-> Undefined,
     recursive |-> Undefined,
     leaseAccessConditions |-> OrEmpty(conditions),
     modifiedAccessConditions |-> OrEmpty(conditions)]

\* Mutant: the caller's conditions are kept when there are any.
IfNotExistsConditions_KeepsCallers(conditions) ==
    IF conditions = Undefined
    THEN Some([ifMatch |-> Undefined, ifNoneMatch |-> Some(ETagAny)])
    ELSE conditions

\* createIfNotExists: const conditions = { ifNoneMatch: ETagAny }, which
\* replaces options.conditions in the options handed to this.create.
IfNotExistsConditions(conditions) ==
    Some([ifMatch |-> Undefined, ifNoneMatch |-> Some(ETagAny)])

\* The request delete hands to pathContext.deleteMethod.
DeleteCall(continuation, recursive, conditions) ==
    [op |-> "delete", url |-> Undefined, mode |-> Undefined, renameSource |-> Undefined,
     resource |-> Undefined, continuation |-> continuation, recursive |-> recursive,
     leaseAccessConditions |-> OrEmpty(conditions),
     modifiedAccessConditions |-> OrEmpty(conditions)]

\* Mutant: the loop goes on after an empty string.
DeleteContinues_OnEmpty(continuation) == continuation # Undefined

\* while (continuation !== undefined && continuation !== "")
DeleteContinues(continuation) == continuation # Undefined /\ continuation # Some("")

\* e.details?.errorCode === code
HasErrorCode(e, code) == e.errorCode = Some(code)

\* The value an operation returns.
Returned(succeeded, response) ==
    [returned |-> TRUE, succeeded |-> succeeded, response |-> Some(response)]

InitPath ==
    /\ \/ /\ pathOp = "move"
          /\ pathArgs \in [destinationFileSystem : DestinationFileSystems,
                           destinationPath : DestinationPaths,
                           resourceType : {Undefined}, conditions : {Undefined},
                           recursive : {Undefined}]
       \/ /\ pathOp = "createIfNotExists"
          /\ pathArgs \in [destinationFileSystem : {Undefined},
                           destinationPath : {<<>>},
                           resourceType : {Some(r) : r \in ResourceTypes},
                           conditions : CallerConditions, recursive : {Undefined}]
       \/ /\ pathOp \in {"delete", "deleteIfExists"}
          /\ pathArgs \in [destinationFileSystem : {Undefined},
                           destinationPath : {<<>>}, resourceType : {Undefined},
                           conditions : CallerConditions, recursive : Recursives]
    /\ pathPc = "start"
    /\ PathFresh
    /\ aborted \in BOOLEAN
    /\ AclIdle
    /\ UploadIdle

\* move up to its await: the span is created, the destination is split,
\* and either the RangeError is thrown (outside the try block, so neither
\* the catch nor the finally block runs) or the create request goes out.
MoveStart ==
    /\ pathOp = "move"
    /\ pathPc = "start"
    /\ pathSpan' = NewSpan
    /\ IF MoveRejected(pathArgs.destinationPath)
       THEN /\ pathPc' = "failed"
            /\ pathError' = [kind |-> "RangeError", errorCode |-> Undefined]
            /\ UNCHANGED pathCalls
       ELSE /\ pathPc' = "calling"
            /\ pathCalls' = Append(pathCalls, MoveCall(pathArgs))
            /\ UNCHANGED pathError
    /\ UNCHANGED <<pathOp, pathArgs, pathResponses, pathResult, innerSpan>>
    /\ UNCHANGED <<aclVars, upVars, sigVars>>

\* The create request of move rejects.
MoveCreateFails ==
    /\ pathOp = "move"
    /\ pathPc = "calling"
    /\ \E e \in PathErrors(aborted) :
        /\ pathResponses' = Append(pathResponses, Rejected(e))
        /\ pathError' = e
    /\ pathSpan' = EndFailed(pathSpan)
    /\ pathPc' = "failed"
    /\ UNCHANGED <<pathOp, pathArgs, pathCalls, pathResult, innerSpan>>
    /\ UNCHANGED <<aclVars, upVars, sigVars>>

\* The create request of move resolves.
MoveCreateSucceeds ==
    /\ pathOp = "move"
    /\ pathPc = "calling"
    /\ \E response \in CreateResponses :
        /\ pathResponses' = Append(pathResponses, response)
        /\ pathResult' = Returned(Undefined, response)
    /\ pathSpan' = EndSpan(pathSpan)
    /\ pathPc' = "done"
    /\ UNCHANGED <<pathOp, pathArgs, pathCalls, pathError, innerSpan>>
    /\ UNCHANGED <<aclVars, upVars, sigVars>>

\* createIfNotExists up to the await inside this.create.
CreateIfNotExistsStart ==
    /\ pathOp = "createIfNotExists"
    /\ pathPc = "start"
    /\ pathSpan' = NewSpan
    /\ innerSpan' = NewSpan
    /\ pathCalls' = Append(pathCalls,
            PathCreateCall(pathArgs.resourceType[1],
                           IfNotExistsConditions(pathArgs.conditions)))
    /\ pathPc' = "calling"
    /\ UNCHANGED <<pathOp, pathArgs, pathResponses, pathResult, pathError>>
    /\ UNCHANGED <<aclVars, upVars, sigVars>>

\* The create request rejects: this.create sets its span's status, ends the
\* span and rethrows; createIfNotExists resumes in a later job.
CreateIfNotExistsFails ==
    /\ pathOp = "createIfNotExists"
    /\ pathPc = "calling"
    /\ innerSpan' = EndFailed(innerSpan)
    /\ \E e \in PathErrors(aborted) :
        pathResponses' = Append(pathResponses, Rejected(e))
    /\ pathPc' = "returning"
    /\ UNCHANGED <<pathOp, pathArgs, pathCalls, pathResult, pathError, pathSpan>>
    /\ UNCHANGED <<aclVars, upVars, sigVars>>

\* The create request resolves: this.create ends its span and returns the
\* response; createIfNotExists resumes in a later job.
CreateIfNotExistsSucceeds ==
    /\ pathOp = "createIfNotExists"
    /\ pathPc = "calling"
    /\ innerSpan' = EndSpan(innerSpan)
    /\ \E response \in CreateResponses :
        pathResponses' = Append(pathResponses, response)
    /\ pathPc' = "returning"
    /\ UNCHANGED <<pathOp, pathArgs, pathCalls, pathResult, pathError, pathSpan>>
    /\ UNCHANGED <<aclVars, upVars, sigVars>>

\* createIfNotExists resumes after its await of this.create: it returns
\* succeeded = true with the response, returns succeeded = false for
\* PathAlreadyExists and rethrows every other error; its span is ended.
CreateIfNotExistsReturns ==
    /\ pathOp = "createIfNotExists"
    /\ pathPc = "returning"
    /\ LET outcome == pathResponses[Len(pathResponses)]
       IN  IF outcome.ok
           THEN /\ pathResult' = Returned(Some(TRUE), outcome)
                /\ pathSpan' = EndSpan(pathSpan)
                /\ pathPc' = "done"
                /\ UNCHANGED pathError
           ELSE IF HasErrorCode(outcome.error, "PathAlreadyExists")
           THEN /\ pathSpan' = EndSpan(SetStatus(pathSpan, "ALREADY_EXISTS"))
                /\ pathResult' = Returned(Some(FALSE), outcome)
                /\ pathPc' = "done"
                /\ UNCHANGED pathError
           ELSE /\ pathSpan' = EndFailed(pathSpan)
                /\ pathError' = outcome.error
                /\ pathPc' = "failed"
                /\ UNCHANGED pathResult
    /\ UNCHANGED <<pathOp, pathArgs, pathCalls, pathResponses, innerSpan>>
    /\ UNCHANGED <<aclVars, upVars, sigVars>>

\* delete up to its first await; deleteIfExists creates its own span first
\* and calls this.delete.
DeleteStart ==
    /\ pathOp \in {"delete", "deleteIfExists"}
    /\ pathPc = "start"
    /\ IF pathOp = "deleteIfExists"
       THEN pathSpan' = NewSpan /\ innerSpan' = NewSpan
       ELSE pathSpan' = NewSpan /\ UNCHANGED innerSpan
    /\ pathCalls' = Append(pathCalls,
            DeleteCall(Undefined, pathArgs.recursive, pathArgs.conditions))
    /\ pathPc' = "calling"
    /\ UNCHANGED <<pathOp, pathArgs, pathResponses, pathResult, pathError>>
    /\ UNCHANGED <<aclVars, upVars, sigVars>>

\* A delete request rejects: delete sets its span's status, ends the span
\* and rethrows; under deleteIfExists the caller resumes in a later job.
DeleteCallFails ==
    /\ pathOp \in {"delete", "deleteIfExists"}
    /\ pathPc = "calling"
    /\ \E e \in PathErrors(aborted) :
        /\ pathResponses' = Append(pathResponses, Rejected(e))
        /\ IF pathOp = "delete"
           THEN /\ pathSpan' = EndFailed(pathSpan)
                /\ pathError' = e
                /\ pathPc' = "failed"
                /\ UNCHANGED innerSpan
           ELSE /\ innerSpan' = EndFailed(innerSpan)
                /\ pathPc' = "returning"
                /\ UNCHANGED <<pathSpan, pathError>>
    /\ UNCHANGED <<pathOp, pathArgs, pathCalls, pathResult>>
    /\ UNCHANGED <<aclVars, upVars, sigVars>>

\* A delete request resolves: the loop either issues the next request with
\* the continuation returned, or delete ends its span and returns the last
\* response; under deleteIfExists the caller resumes in a later job.
DeleteCallSucceeds ==
    /\ pathOp \in {"delete", "deleteIfExists"}
    /\ pathPc = "calling"
    /\ \E response \in DeleteResponses(Len(pathCalls)) :
        /\ pathResponses' = Append(pathResponses, response)
        /\ IF DeleteContinues(response.continuation)
           THEN /\ pathCalls' = Append(pathCalls,
                        DeleteCall(response.continuation, pathArgs.recursive,
                                   pathArgs.conditions))
                /\ UNCHANGED <<pathPc, pathResult, pathSpan, innerSpan>>
           ELSE /\ IF pathOp = "delete"
                   THEN /\ pathResult' = Returned(Undefined, response)
                        /\ pathSpan' = EndSpan(pathSpan)
                        /\ pathPc' = "done"
                        /\ UNCHANGED innerSpan
                   ELSE /\ innerSpan' = EndSpan(innerSpan)
                        /\ pathPc' = "returning"
                        /\ UNCHANGED <<pathResult, pathSpan>>
                /\ UNCHANGED pathCalls
    /\ UNCHANGED <<pathOp, pathArgs, pathError>>
    /\ UNCHANGED <<aclVars, upVars, sigVars>>

\* deleteIfExists resumes after its await of this.delete: it returns
\* succeeded = true with the response, returns succeeded = false for
\* PathNotFound and rethrows every other error; its span is ended.
DeleteIfExistsReturns ==
    /\ pathOp = "deleteIfExists"
    /\ pathPc = "returning"
    /\ LET outcome == pathResponses[Len(pathResponses)]
       IN  IF outcome.ok
           THEN /\ pathResult' = Returned(Some(TRUE), outcome)
                /\ pathSpan' = EndSpan(pathSpan)
                /\ pathPc' = "done"
                /\ UNCHANGED pathError
           ELSE IF HasErrorCode(outcome.error, "PathNotFound")
           THEN /\ pathSpan' = EndSpan(SetStatus(pathSpan, "NOT_FOUND"))
                /\ pathResult' = Returned(Some(FALSE), outcome)
                /\ pathPc' = "done"
                /\ UNCHANGED pathError
           ELSE /\ pathSpan' = EndFailed(pathSpan)
                /\ pathError' = outcome.error
                /\ pathPc' = "failed"
                /\ UNCHANGED pathResult
    /\ UNCHANGED <<pathOp, pathArgs, pathCalls, pathResponses, innerSpan>>
    /\ UNCHANGED <<aclVars, upVars, sigVars>>

NextPath ==
    \/ MoveStart
    \/ MoveCreateFails
    \/ MoveCreateSucceeds
    \/ CreateIfNotExistsStart
    \/ CreateIfNotExistsFails
    \/ CreateIfNotExistsSucceeds
    \/ CreateIfNotExistsReturns
    \/ DeleteStart
    \/ DeleteCallFails
    \/ DeleteCallSucceeds
    \/ DeleteIfExistsReturns
    \/ AbortTriggered

SpecPath == InitPath /\ [][NextPath]_vars

(***************************************************************************)
(* Both engines: a caller runs either of them.                             *)
(***************************************************************************)
InitEngines == InitAcl \/ InitUpload

NextEngines == NextAcl \/ NextUpload

SpecEngines == InitEngines /\ [][NextEngines]_vars

(***************************************************************************)
(* Properties of the recursive ACL change (checked under SpecAcl).         *)
(***************************************************************************)
\* A count as a batch response states it: a missing count is 0.
Given(o) == IF Len(o) = 0 THEN 0 ELSE o[1]

\* Sum of one count over the first n responses, in issue order.
SumFailures(n) ==
    LET f[i \in 0..n] == IF i = 0 THEN 0 ELSE f[i - 1] + Given(aclResponses[i].failureCount)
    IN  f[n]

SumDirectories(n) ==
    LET f[i \in 0..n] ==
            IF i = 0 THEN 0 ELSE f[i - 1] + Given(aclResponses[i].directoriesSuccessful)
    IN  f[n]

SumFiles(n) ==
    LET f[i \in 0..n] == IF i = 0 THEN 0 ELSE f[i - 1] + Given(aclResponses[i].filesSuccessful)
    IN  f[n]

\* C1: when a valid recursive ACL request returns (every batch succeeded),
\* each counter of the result equals the sum, over all batches issued, of
\* that batch's failureCount, directoriesSuccessful and filesSuccessful, a
\* missing count taken as 0.
C1_CountersAreSums ==
    aclPc = "done" =>
        /\ \A k \in 1..Len(aclResponses) : aclResponses[k].ok
        /\ Len(aclResponses) = Len(aclCalls)
        /\ aclResult.counters.failedChangesCount = SumFailures(Len(aclResponses))
        /\ aclResult.counters.changedDirectoriesCount = SumDirectories(Len(aclResponses))
        /\ aclResult.counters.changedFilesCount = SumFiles(Len(aclResponses))

\* A request of three batches returned, with a batch whose counts are
\* missing and batches whose counts are not.
C1_Witness ==
    /\ aclPc = "done"
    /\ Len(aclResponses) = 3
    /\ \E k \in 1..3 : aclResponses[k].failureCount = Undefined
    /\ aclResult.counters.failedChangesCount > 0
    /\ aclResult.counters.changedDirectoriesCount > 0
    /\ aclResult.counters.changedFilesCount > 0

NonEmptyToken(t) == Len(t) = 1 /\ t[1] # ""

\* C2: a further remote call is issued only after a successful batch whose
\* continuation token is non-empty and only while fewer than maxBatches
\* batches have succeeded; a result returned after maxBatches batches whose
\* last token is non-empty carries that non-empty token; with server tokens
\* "A" then "" exactly 2 remote calls are made.
C2_LoopStops ==
    /\ \A k \in 1..(Len(aclCalls) - 1) :
        /\ k <= Len(aclResponses)
        /\ aclResponses[k].ok
        /\ NonEmptyToken(aclResponses[k].continuation)
        /\ aclOptions.maxBatches # Undefined => k < aclOptions.maxBatches[1]
    /\ aclPc = "done" =>
        /\ Len(aclCalls) = Len(aclResponses)
        /\ NonEmptyToken(aclResponses[Len(aclResponses)].continuation) =>
            /\ aclOptions.maxBatches = Some(Len(aclResponses))
            /\ aclResult.continuationToken = aclResponses[Len(aclResponses)].continuation
        /\ ( /\ Len(aclResponses) >= 2
             /\ aclResponses[1].continuation = Some("A")
             /\ aclResponses[2].continuation = Some("") ) => Len(aclCalls) = 2

\* The loop stopped at maxBatches = 2 with work remaining.
C2_Witness ==
    /\ aclPc = "done"
    /\ aclOptions.maxBatches = Some(2)
    /\ Len(aclCalls) = 2
    /\ aclResponses[1].continuation = Some("A")
    /\ aclResult.continuationToken = Some("B")

\* C3: a request with batchSize < 1 or maxBatches < 1 (when supplied) fails
\* with a RangeError and no call is ever made to the remote
\* setAccessControlRecursive operation.
C3_InvalidRejected ==
    ( \/ (Len(aclOptions.batchSize) = 1 /\ aclOptions.batchSize[1] < 1)
      \/ (Len(aclOptions.maxBatches) = 1 /\ aclOptions.maxBatches[1] < 1) ) =>
        /\ aclCalls = <<>>
        /\ aclPc \in {"start", "failed"}
        /\ aclPc = "failed" => aclError.kind = "RangeError"

\* batchSize = 0 with a valid maxBatches was rejected.
C3_Witness ==
    /\ aclPc = "failed"
    /\ aclOptions.batchSize = Some(0)
    /\ aclOptions.maxBatches = Some(1)
    /\ aclError.kind = "RangeError"

\* C4: if the remote call of batch k fails, it is the last call ever issued,
\* the operation fails with a DataLakeAclChangeFailedError wrapping the
\* underlying error, and the error carries the token returned by batch k-1
\* (the caller's options.continuationToken when k = 1), which is the token
\* the failed call itself carried.
C4_FailureCarriesToken ==
    \A k \in 1..Len(aclResponses) :
        ~aclResponses[k].ok =>
            /\ k = Len(aclResponses)
            /\ k = Len(aclCalls)
            /\ aclPc = "failed"
            /\ aclError.kind = "DataLakeAclChangeFailedError"
            /\ aclError.inner = aclResponses[k].error
            /\ aclError.continuationToken =
                  IF k = 1 THEN aclOptions.continuationToken
                           ELSE aclResponses[k - 1].continuation
            /\ aclError.continuationToken = aclCalls[k].continuation

\* The second batch failed after the first returned token "A".
C4_Witness ==
    /\ aclPc = "failed"
    /\ Len(aclResponses) = 2
    /\ ~aclResponses[2].ok
    /\ aclError.continuationToken = Some("A")
    /\ aclError.inner = "RestError"

(***************************************************************************)
(* Properties of the upload (checked under SpecUpload).                    *)
(***************************************************************************)
\* The remote calls of one kind issued so far, in issue order.
CallsOf(kind) == SelectSeq(upCalls, LAMBDA c : c.op = kind)

\* C5: an upload of size 0 makes exactly one create call, never an append
\* or a flush call, and returns the create response.
C5_EmptyUploadOnlyCreates ==
    (upPc # "idle" /\ upSize = 0) =>
        /\ Len(CallsOf("append")) = 0
        /\ Len(CallsOf("flush")) = 0
        /\ Len(CallsOf("create")) = (IF upPc = "start" THEN 0 ELSE 1)
        /\ upPc \in {"start", "creating", "done", "failed"}
        /\ upPc = "done" => upResult = "createResponse"

\* An upload of size 0 returned.
C5_Witness ==
    /\ upSize = 0
    /\ upPc = "done"
    /\ upCalls = <<CreateCall>>
    /\ upResult = "createResponse"

\* The single upload threshold in force for the options as supplied: the
\* default when the option is unset.
ThresholdInForce ==
    IF Len(upOptions.singleUploadThreshold) = 0 \/ upOptions.singleUploadThreshold[1] = 0
    THEN FILE_MAX_SINGLE_UPLOAD_THRESHOLD
    ELSE upOptions.singleUploadThreshold[1]

\* C6: for 0 < size <= singleUploadThreshold the worker pool is never
\* constructed, and a successful upload has issued, after the create,
\* exactly one append with offset 0 and length size followed by exactly one
\* flush with position size.
C6_SingleShot ==
    (upPc # "idle" /\ 0 < upSize /\ upSize <= ThresholdInForce) =>
        /\ ~batch.constructed
        /\ inFlight = {}
        /\ upPc = "done" =>
            /\ upCalls = <<[op |-> "create", position |-> 0, contentLength |-> 0],
                           [op |-> "append", position |-> 0, contentLength |-> upSize],
                           [op |-> "flush", position |-> upSize, contentLength |-> 0]>>
            /\ upResult = "flushResponse"

\* A payload of exactly the threshold was uploaded in one append, with a
\* chunkSize smaller than the payload.
C6_Witness ==
    /\ upPc = "done"
    /\ upSize = 2
    /\ upOptions.singleUploadThreshold = Some(2)
    /\ upOptions.chunkSize = Some(1)
    /\ Len(CallsOf("append")) = 1

\* ceil(a / b), by its definition: the least n with n * b >= a.
CeilOf(a, b) == CHOOSE n \in 0..a : n * b >= a /\ (n = 0 \/ (n - 1) * b < a)

\* Sum of the lengths of the first n calls of a sequence of calls.
LengthSum(calls, n) ==
    LET f[i \in 0..n] == IF i = 0 THEN 0 ELSE f[i - 1] + calls[i].contentLength
    IN  f[n]

\* C7: once the pool is built for size > singleUploadThreshold and resolved
\* chunkSize C, exactly n = ceil(size / C) tasks are queued; the append of
\* task i (0-based, started in queue order) has offset i * C, and length C
\* except for the last, whose length is size - (n - 1) * C, between 1 and C;
\* after a successful upload the n appends cover every byte of [0, size)
\* exactly once and their lengths sum to size.
C7_ChunkPartition ==
    batch.constructed =>
        LET C == upOptions.chunkSize[1]
            n == CeilOf(upSize, C)
            appends == CallsOf("append")
        IN  /\ upSize > ThresholdInForce
            /\ Len(batch.operations) = n
            /\ \A i \in 0..(n - 1) : batch.operations[i + 1] = i
            /\ Len(appends) <= n
            /\ \A i \in 0..(Len(appends) - 1) :
                /\ appends[i + 1].position = i * C
                /\ appends[i + 1].contentLength =
                        (IF i < n - 1 THEN C ELSE upSize - (n - 1) * C)
                /\ appends[i + 1].contentLength \in 1..C
            /\ upPc = "done" =>
                /\ Len(appends) = n
                /\ LengthSum(appends, n) = upSize
                /\ \A byte \in 0..(upSize - 1) :
                    Cardinality({k \in 1..n :
                        /\ appends[k].position <= byte
                        /\ byte < appends[k].position + appends[k].contentLength}) = 1

\* A successful upload of three chunks whose last chunk is shorter, and one
\* whose size is a multiple of the chunk size.
C7_Witness ==
    /\ upPc = "done"
    /\ batch.constructed
    /\ upSize = 5
    /\ upOptions.chunkSize = Some(2)
    /\ CallsOf("append") = <<[op |-> "append", position |-> 0, contentLength |-> 2],
                             [op |-> "append", position |-> 2, contentLength |-> 2],
                             [op |-> "append", position |-> 4, contentLength |-> 1]>>

\* Append calls started and not yet completed, counted from the calls
\* issued and the responses received.
AppendsInFlight == Len(CallsOf("append")) - Len(appended) - Cardinality(failedChunks)

\* C8: in every state of a chunked upload the number of append calls that
\* have started and not yet completed is at most the configured
\* maxConcurrency.
C8_ConcurrencyBound ==
    batch.constructed =>
        /\ AppendsInFlight = Cardinality(inFlight)
        /\ AppendsInFlight <= upOptions.maxConcurrency[1]
        /\ AppendsInFlight >= 0

\* The pool is full while a task is still queued.
C8_Witness ==
    /\ batch.constructed
    /\ upOptions.maxConcurrency = Some(2)
    /\ AppendsInFlight = 2
    /\ batch.offset < Len(batch.operations)
    /\ Len(appended) = 0

\* C9: with an onProgress callback, in a chunked upload the loadedBytes
\* values delivered are non-decreasing, the k-th equals the sum of the
\* lengths of the first k appends to complete (whatever their order), and
\* after a successful upload the last one equals size.
C9_ProgressMonotone ==
    (batch.constructed /\ upOptions.onProgress) =>
        /\ Len(upProgress) = Len(appended)
        /\ \A k \in 1..Len(upProgress) : upProgress[k] = LengthSum(appended, k)
        /\ \A k \in 2..Len(upProgress) : upProgress[k - 1] <= upProgress[k]
        /\ upPc = "done" =>
            /\ Len(upProgress) > 0
            /\ upProgress[Len(upProgress)] = upSize

\* A successful upload of three chunks that completed out of chunk order.
C9_Witness ==
    /\ upPc = "done"
    /\ batch.constructed
    /\ upOptions.onProgress
    /\ Len(appended) = 3
    /\ appended[1].position > appended[2].position
    /\ upProgress[3] = upSize

\* C10: in a chunked upload the flush call is issued at most once, with
\* position = size and after every other call; when it is issued every
\* queued append task has completed successfully (its append acknowledged,
\* its progress reported, the pool told); once an append task has failed,
\* by its append or by its progress report, no flush call is issued.
C10_FlushAfterAppends ==
    batch.constructed =>
        /\ Len(CallsOf("flush")) <= 1
        /\ Len(CallsOf("flush")) = 1 =>
            /\ upCalls[Len(upCalls)] = [op |-> "flush", position |-> upSize, contentLength |-> 0]
            /\ Len(appended) = Len(batch.operations)
            /\ Len(CallsOf("append")) = Len(batch.operations)
            /\ batch.completed = Len(batch.operations)
            /\ inFlight = {}
            /\ settled = <<>>
            /\ failedChunks = {}
            /\ chunkErrors = <<>>
        /\ (failedChunks # {} \/ chunkErrors # <<>>) => Len(CallsOf("flush")) = 0
        /\ upPc \in {"flushing", "done"} => Len(CallsOf("flush")) = 1

\* A chunked upload flushed after three appends; its size is not a multiple
\* of the chunk size.
C10_Witness ==
    /\ batch.constructed
    /\ upPc = "flushing"
    /\ Len(appended) = 3
    /\ upSize = 5
    /\ upOptions.chunkSize = Some(2)

\* The upload was rejected by a parameter validation.
RejectedByValidation == upPc = "failed" /\ upError.kind = "RangeError"

\* C11 (as claimed): whenever the upload is rejected by a parameter
\* validation (size, chunkSize, concurrency, block count), no create, append
\* or flush call has been issued.
C11_ValidationBeforeAnyCall ==
    (RejectedByValidation
        /\ upError.message \in {"size", "chunkSize", "maxConcurrency", "numBlocks"}) =>
            upCalls = <<>>

\* C12: an upload whose size exceeds FILE_MAX_SIZE_BYTES never issues a
\* remote call and fails with a RangeError.
C12_OversizeRejected ==
    (upPc # "idle" /\ upSize > FILE_MAX_SIZE_BYTES) =>
        /\ upCalls = <<>>
        /\ upPc \in {"start", "failed"}
        /\ upPc = "failed" => upError = [kind |-> "RangeError", message |-> "size"]

\* An oversize upload was rejected.
C12_Witness ==
    /\ upSize = FILE_MAX_SIZE_BYTES + 1
    /\ upPc = "failed"
    /\ upError.kind = "RangeError"
    /\ upCalls = <<>>

\* C13 (as claimed): an upload of size > 0 called with maxConcurrency <= 0,
\* the value 0 included, issues no append call and, once the file is
\* created, is rejected with a RangeError.
C13_NonPositiveConcurrencyRejected ==
    (upPc # "idle" /\ upSize > 0
        /\ Len(upGiven.maxConcurrency) = 1 /\ upGiven.maxConcurrency[1] <= 0) =>
            /\ Len(CallsOf("append")) = 0
            /\ upPc \in {"start", "creating", "failed"}

\* The file was created, so the option checks of a non-empty upload ran at
\* least up to the chunkSize check.
ChunkSizeStepRan ==
    /\ upSize > 0
    /\ \/ upPc \in {"appending", "batch", "flushing", "done"}
       \/ upPc = "failed" /\ upError.kind = "RangeError" /\ upError.message # "size"
       \/ upPc = "failed" /\ upError.kind # "RangeError" /\ Len(upCalls) >= 2

\* max(FILE_UPLOAD_DEFAULT_CHUNK_SIZE, ceil(size / BLOCK_BLOB_MAX_BLOCKS))
DerivedChunkSize ==
    LET c == CeilOf(upSize, BLOCK_BLOB_MAX_BLOCKS)
    IN  IF c > FILE_UPLOAD_DEFAULT_CHUNK_SIZE THEN c ELSE FILE_UPLOAD_DEFAULT_CHUNK_SIZE

\* The chunk size the supplied options resolve to.
ExpectedChunkSize ==
    IF Len(upGiven.chunkSize) = 0 \/ upGiven.chunkSize[1] = 0
    THEN DerivedChunkSize
    ELSE upGiven.chunkSize[1]

\* C14: once resolved, options.chunkSize is the supplied value, or, when
\* chunkSize is unset, max(FILE_UPLOAD_DEFAULT_CHUNK_SIZE,
\* ceil(size / BLOCK_BLOB_MAX_BLOCKS)); when the resolved chunkSize is < 1
\* or > FILE_UPLOAD_MAX_CHUNK_SIZE the upload is rejected and no append is
\* issued.
C14_ChunkSizeResolution ==
    (upPc # "idle" /\ upSize > 0) =>
        /\ ChunkSizeStepRan => upOptions.chunkSize = Some(ExpectedChunkSize)
        /\ (ExpectedChunkSize < 1 \/ ExpectedChunkSize > FILE_UPLOAD_MAX_CHUNK_SIZE) =>
            /\ Len(CallsOf("append")) = 0
            /\ upPc \in {"start", "creating", "failed"}
            /\ (upPc = "failed" /\ Len(upCalls) >= 1 /\ upError.kind = "RangeError") =>
                    upError.message = "chunkSize"

\* An upload with chunkSize unset whose derived chunk size is above the
\* default.
C14_Witness ==
    /\ upPc = "done"
    /\ upGiven.chunkSize = Undefined
    /\ upSize = FILE_MAX_SIZE_BYTES
    /\ upOptions.chunkSize = Some(FILE_UPLOAD_MAX_CHUNK_SIZE)
    /\ Len(CallsOf("append")) = BLOCK_BLOB_MAX_BLOCKS

\* The resolved chunkSize is in range and cuts the payload into more than
\* BLOCK_BLOB_MAX_BLOCKS chunks.
ExceedsMaxBlocks ==
    /\ ExpectedChunkSize >= 1
    /\ ExpectedChunkSize <= FILE_UPLOAD_MAX_CHUNK_SIZE
    /\ CeilOf(upSize, ExpectedChunkSize) > BLOCK_BLOB_MAX_BLOCKS

\* C15 (as claimed): for every upload with size > 0, above or below the
\* single upload threshold, if ceil(size / chunkSize) exceeds
\* BLOCK_BLOB_MAX_BLOCKS the upload is rejected and no append call is sent.
C15_TooManyBlocksAlwaysRejected ==
    (upPc # "idle" /\ upSize > 0 /\ ExceedsMaxBlocks) =>
        /\ Len(CallsOf("append")) = 0
        /\ upPc \in {"start", "creating", "failed"}

\* C15 (amended): for size > singleUploadThreshold, if ceil(size / chunkSize)
\* exceeds BLOCK_BLOB_MAX_BLOCKS the upload is rejected and no append call
\* is sent; for size <= singleUploadThreshold the block count is not
\* checked, so no upload of such a size is rejected for it.
C15_TooManyBlocksRejectedAboveThreshold ==
    /\ (upPc # "idle" /\ upSize > 0 /\ upSize > ThresholdInForce /\ ExceedsMaxBlocks) =>
        /\ Len(CallsOf("append")) = 0
        /\ upPc \in {"start", "creating", "failed"}
        /\ ~batch.constructed
    /\ (upPc = "failed" /\ upError = [kind |-> "RangeError", message |-> "numBlocks"]) =>
        /\ upSize > ThresholdInForce
        /\ ExceedsMaxBlocks
        /\ upCalls = <<[op |-> "create", position |-> 0, contentLength |-> 0]>>

\* An upload above the threshold was rejected for its block count.
C15_Witness ==
    /\ upPc = "failed"
    /\ upError = [kind |-> "RangeError", message |-> "numBlocks"]
    /\ upSize = BLOCK_BLOB_MAX_BLOCKS + 1
    /\ upOptions.chunkSize = Some(1)

\* C16: if an append task of a chunked upload fails, the upload fails with
\* the error of the (first) failing task, and the only remote calls the
\* upload ever makes are create and append: no flush, no delete, no cleanup.
\* From the failure on the upload is either still awaiting the pool or has
\* failed with that error, and once the pool has handled every settled task
\* it is in its error state, which leaves the upload nothing but to fail.
C16_FailedUploadNoCleanup ==
    (batch.constructed /\ Len(chunkErrors) > 0) =>
        /\ upPc \in {"batch", "failed"}
        /\ upPc = "failed" =>
            /\ upError.kind = chunkErrors[1].error
            /\ batch.state = "Error"
        /\ settled = <<>> => batch.state = "Error"
        /\ upResult = "none"
        /\ \A k \in 1..Len(upCalls) : upCalls[k].op \in {"create", "append"}
        /\ Len(CallsOf("create")) = 1

\* Two append tasks failed with different errors after another had
\* succeeded; the upload has failed with the first of them and nothing is
\* in flight any more.
C16_Witness ==
    /\ batch.constructed
    /\ upPc = "failed"
    /\ upError.kind = "AbortError"
    /\ Len(chunkErrors) = 2
    /\ chunkErrors[1].error = "AbortError"
    /\ chunkErrors[2].error = "RestError"
    /\ Len(appended) = 1
    /\ inFlight = {}
    /\ settled = <<>>

\* The batches that have succeeded so far.
SucceededBatches == {k \in 1..Len(aclResponses) : aclResponses[k].ok}

\* C17: with onProgress supplied, the callback has been invoked exactly once
\* per successful batch, in batch order, and before the request of the next
\* batch is issued; the k-th event's batchCounters are batch k's counts, its
\* aggregateCounters (as handed over) are the sums over batches 1..k, and
\* its continuationToken is the token batch k returned.  Without onProgress
\* nothing is delivered.
C17_ProgressPerBatch ==
    IF aclOptions.onProgress
    THEN /\ Len(aclProgress) = Cardinality(SucceededBatches)
         /\ Len(aclCalls) <= Len(aclProgress) + 1
         /\ \A k \in 1..Len(aclProgress) :
                /\ aclResponses[k].ok
                /\ aclProgress[k].batchCounters =
                       [failedChangesCount |-> Given(aclResponses[k].failureCount),
                        changedDirectoriesCount |->
                            Given(aclResponses[k].directoriesSuccessful),
                        changedFilesCount |-> Given(aclResponses[k].filesSuccessful)]
                /\ aclProgress[k].aggregateCounters =
                       [failedChangesCount |-> SumFailures(k),
                        changedDirectoriesCount |-> SumDirectories(k),
                        changedFilesCount |-> SumFiles(k)]
                /\ aclProgress[k].continuationToken = aclResponses[k].continuation
    ELSE aclProgress = <<>>

\* Three batches reported progress; the second and third had counts of
\* their own, so the aggregate differs from the batch's counts.
C17_Witness ==
    /\ aclOptions.onProgress
    /\ Len(aclProgress) = 3
    /\ aclProgress[1].batchCounters.changedFilesCount > 0
    /\ aclProgress[2].batchCounters.changedFilesCount > 0
    /\ aclProgress[3].aggregateCounters # aclProgress[3].batchCounters
    /\ aclProgress[1].continuationToken # aclProgress[2].continuationToken
    /\ aclPc = "done"

\* The operation ended because the callback threw: it failed although its
\* last request had succeeded.
CallbackThrew ==
    /\ aclPc = "failed"
    /\ Len(aclResponses) >= 1
    /\ aclResponses[Len(aclResponses)].ok

\* C18: if onProgress throws during batch k, the operation rejects with the
\* callback's exception as it is (not a DataLakeAclChangeFailedError), no
\* result is returned and no request for batch k+1 is issued.
C18_CallbackErrorPropagates ==
    CallbackThrew =>
        /\ aclError.kind = "CallbackError"
        /\ aclError.inner = "none"
        /\ aclPc # "done"
        /\ Len(aclCalls) = Len(aclResponses)
        /\ Len(aclProgress) = Len(aclResponses)

\* The callback threw in the second batch, whose token was non-empty and
\* which had not reached maxBatches: the loop would have gone on.
C18_Witness ==
    /\ CallbackThrew
    /\ Len(aclResponses) = 2
    /\ NonEmptyToken(aclResponses[2].continuation)
    /\ ~ReachMaxBatches(aclOptions, batchCounter)

\* C19: the continuationToken of a returned result is non-empty only if the
\* loop stopped at maxBatches while the last batch returned a non-empty
\* token; when the server's last token was empty or absent, the returned
\* continuationToken is absent.
C19_TokenAbsentWhenServerDone ==
    aclPc = "done" =>
        LET last == aclResponses[Len(aclResponses)].continuation
        IN  /\ NonEmptyToken(aclResult.continuationToken) =>
                   /\ ReachMaxBatches(aclOptions, batchCounter)
                   /\ NonEmptyToken(last)
            /\ ~NonEmptyToken(last) => aclResult.continuationToken = Undefined

\* batch.do() has resolved: the upload went on to the flush.
DoResolved == batch.constructed /\ upPc \in {"flushing", "done"}

\* C20: the pool's do() resolves only when every queued task has completed,
\* and rejects once a task has failed (the upload fails in the pool only
\* after a task failure, and with the pool in its error state); after the
\* first task failure no task that had not started is ever started (no new
\* append is issued), while tasks already running may still finish.
C20_PoolFailFast ==
    /\ [](DoResolved =>
            /\ batch.completed = Len(batch.operations)
            /\ Len(appended) = Len(batch.operations)
            /\ inFlight = {}
            /\ chunkErrors = <<>>)
    /\ [][(upPc = "batch" /\ upPc' = "failed") =>
            chunkErrors # <<>> /\ batch.state = "Error"]_vars
    /\ []((batch.constructed /\ chunkErrors # <<>> /\ RejectedSettled = {}) =>
            batch.state = "Error")
    /\ [][(chunkErrors # <<>> \/ batch.state = "Error") =>
            /\ batch'.offset = batch.offset
            /\ inFlight' \subseteq inFlight
            /\ upCalls' = upCalls]_vars

\* A task failed while another was running; the upload has failed, the
\* running one finished afterwards, and the queued rest was never started.
C20_Witness ==
    /\ upPc = "failed"
    /\ batch.state = "Error"
    /\ batch.concurrency = 2
    /\ batch.offset = 2
    /\ Len(batch.operations) = 3
    /\ Len(chunkErrors) = 1
    /\ Len(appended) = 1
    /\ appended[1].position # chunkErrors[1].index * upOptions.chunkSize[1]
    /\ inFlight = {}
    /\ settled = <<>>

\* The abort has been observed: a remote call of the running operation
\* rejected with the AbortError.
AbortObserved ==
    \/ \E k \in 1..Len(aclResponses) :
            ~aclResponses[k].ok /\ aclResponses[k].error = "AbortError"
    \/ \E k \in 1..Len(chunkErrors) : chunkErrors[k].error = "AbortError"
    \/ upError.kind = "AbortError"

\* C21: once the abort signal has been triggered and observed, no new unit
\* of work is started: the ACL loop issues no further batch call, the pool
\* of the chunked upload starts no further append task, and no other
\* remote call is issued either.
C21_NoNewWorkAfterAbort ==
    /\ [](AbortObserved => aborted)
    /\ [][AbortObserved =>
            /\ aclCalls' = aclCalls
            /\ upCalls' = upCalls
            /\ batch'.offset = batch.offset
            /\ inFlight' \subseteq inFlight]_vars

\* An append task rejected with the AbortError while another was running
\* and tasks were still queued; the running one was acknowledged afterwards
\* and the pool has handled both.
C21_Witness ==
    /\ aborted
    /\ batch.state = "Error"
    /\ Len(chunkErrors) = 1
    /\ chunkErrors[1].error = "AbortError"
    /\ batch.concurrency = 2
    /\ batch.offset = 2
    /\ Len(batch.operations) = 3
    /\ Len(appended) = 1
    /\ inFlight = {}
    /\ settled = <<>>

\* What a callback that kept an event reads from its aggregateCounters now:
\* the object the field refers to, as it is at present.
SeenThrough(event) ==
    IF event.aggregateCountersObject = ResultCounters
    THEN aclResult.counters
    ELSE event.aggregateCounters

\* C22: the running aggregate is not exposed before the loop ends: no object
\* handed to onProgress shares state with the result's counters, so an
\* event the callback kept still shows what it showed when it was handed
\* over, whatever later batches add to the aggregate.
C22_AggregateNotShared ==
    \A k \in 1..Len(aclProgress) :
        SeenThrough(aclProgress[k]) = aclProgress[k].aggregateCounters

\* C24: the batches are strictly sequential: at most one request is in
\* flight; the first request carries the caller's continuationToken and
\* request k+1 the token response k returned; every request carries the
\* same mode and serialized ACL, maxRecords = batchSize and
\* forceFlag = continueOnFailure.
C24_SequentialBatches ==
    /\ Len(aclCalls) - Len(aclResponses) \in {0, 1}
    /\ Len(aclCalls) >= 1 => aclCalls[1].continuation = aclOptions.continuationToken
    /\ \A k \in 1..(Len(aclCalls) - 1) :
            /\ aclResponses[k].ok
            /\ aclCalls[k + 1].continuation = aclResponses[k].continuation
    /\ \A k \in 1..Len(aclCalls) :
            /\ aclCalls[k].mode = aclMode
            /\ aclCalls[k].acl = aclString
            /\ aclCalls[k].maxRecords = aclOptions.batchSize
            /\ aclCalls[k].forceFlag = aclOptions.continueOnFailure

\* Three requests were issued, with three different tokens, the third one
\* still in flight.
C24_Witness ==
    /\ Len(aclCalls) = 3
    /\ Len(aclResponses) = 2
    /\ aclOptions.continuationToken = Some("B")
    /\ aclOptions.batchSize = Some(2)
    /\ aclOptions.continueOnFailure = Some(TRUE)
    /\ aclCalls[2].continuation = Some("A")
    /\ aclCalls[3].continuation = Some("B")
    /\ aclMode = "modify"

\* C25: in every upload the create call has completed successfully before
\* the first append (or flush) is issued; if create fails, no append and no
\* flush is issued and the upload fails.
C25_CreateBeforeAppend ==
    /\ Len(upCalls) >= 1 => upCalls[1].op = "create"
    /\ Len(CallsOf("append")) + Len(CallsOf("flush")) > 0 =>
            upSize > 0 /\ createRes = "fulfilled"
    /\ createRes = "pending" => Len(upCalls) = 1
    /\ createRes = "rejected" => Len(upCalls) = 1 /\ upPc = "failed"

\* The file was created and two appends of a chunked upload are on their
\* way.
C25_Witness ==
    /\ createRes = "fulfilled"
    /\ upPc = "batch"
    /\ Len(CallsOf("append")) = 2
    /\ upSize > 0

\* The request passed both range checks.
ValidAclRequest == ~MaxBatchesInvalid(aclOptions) /\ ~BatchSizeInvalid(aclOptions)

\* C28: a valid request issues at least one remote call, even when the
\* caller's continuation token is empty; with maxBatches = M it issues at
\* most M calls; the number of successful calls is the batch counter.
C28_CallCount ==
    ValidAclRequest =>
        /\ aclPc # "start" => Len(aclCalls) >= 1
        /\ aclOptions.maxBatches # Undefined =>
               Len(aclCalls) <= aclOptions.maxBatches[1]
        /\ Cardinality(SucceededBatches) = batchCounter

\* A request with an empty caller token and maxBatches = 2 returned after
\* two calls, the second of which still returned a token.
C28_Witness ==
    /\ aclPc = "done"
    /\ aclOptions.continuationToken = Some("")
    /\ aclOptions.maxBatches = Some(2)
    /\ Len(aclCalls) = 2
    /\ batchCounter = 2
    /\ NonEmptyToken(aclResponses[2].continuation)

\* C27: the span of the public wrapper (setAccessControlRecursive,
\* updateAccessControlRecursive, removeAccessControlRecursive) is ended only
\* after the wrapped operation has completed, and when that operation
\* fails the wrapper's span carries the error status when it is ended.
C27_WrapperSpanCoversOperation ==
    wrapperSpan.ended =>
        /\ aclPc \in {"done", "failed"}
        /\ aclPc = "failed" => wrapperSpan.status = "UNKNOWN"

(***************************************************************************)
(* Properties of move, createIfNotExists, delete and deleteIfExists        *)
(* (checked under SpecPath).                                               *)
(***************************************************************************)
\* The number of "?" separators in a path.
Separators(path) == Cardinality({i \in 1..Len(path) : path[i] = "?"})

\* The part of a path before its first "?" and the part after it.
BeforeSeparator(path) ==
    SubSeq(path, 1, (CHOOSE i \in 1..Len(path) :
                        path[i] = "?" /\ \A j \in 1..(i - 1) : path[j] # "?") - 1)

AfterSeparator(path) ==
    SubSeq(path, Len(BeforeSeparator(path)) + 2, Len(path))

\* C23: move with a destination path holding more than one "?" fails with a
\* RangeError and issues no remote call; with no or one "?" it issues
\* exactly one create call on the destination (path before the "?", queries
\* after it), carrying renameSource.
C23_MoveDestination ==
    (pathOp = "move" /\ pathPc # "start") =>
        LET path == pathArgs.destinationPath
        IN  IF Separators(path) > 1
            THEN /\ pathPc = "failed"
                 /\ pathError.kind = "RangeError"
                 /\ pathCalls = <<>>
            ELSE /\ Len(pathCalls) = 1
                 /\ pathCalls[1].op = "create"
                 /\ pathCalls[1].renameSource = Some(RenameSource)
                 /\ pathCalls[1].url[1].fileSystem = DestinationFileSystem(pathArgs)
                 /\ IF Separators(path) = 1
                    THEN /\ pathCalls[1].url[1].path = BeforeSeparator(path)
                         /\ pathCalls[1].url[1].queries = Some(AfterSeparator(path))
                    ELSE /\ pathCalls[1].url[1].path = path
                         /\ pathCalls[1].url[1].queries = Undefined

\* A move to "d?s?t" was rejected.
C23_Witness ==
    /\ pathOp = "move"
    /\ pathArgs.destinationPath = <<"d", "?", "s", "?", "t">>
    /\ pathPc = "failed"
    /\ pathError.kind = "RangeError"
    /\ pathCalls = <<>>

\* C26: every span a DataLakePathClient operation created has been ended
\* when the operation is left, on whatever path, the validation errors
\* included.
C26_SpansEnded ==
    pathPc \in {"done", "failed"} =>
        /\ pathSpan.created => pathSpan.ended
        /\ innerSpan.created => innerSpan.ended

\* The outcome of the last request.
LastPathResponse == pathResponses[Len(pathResponses)]

\* C29: createIfNotExists issues the create with ifNoneMatch = "*" in place
\* of any conditions of the caller, returns succeeded = true when create
\* succeeds, succeeded = false when it fails with PathAlreadyExists, and
\* rethrows every other error; deleteIfExists returns succeeded = false
\* exactly when delete fails with PathNotFound, and rethrows every other
\* error.
C29_IfExistsOutcomes ==
    /\ (pathOp = "createIfNotExists" /\ pathPc # "start") =>
          /\ Len(pathCalls) = 1
          /\ pathCalls[1].op = "create"
          /\ pathCalls[1].modifiedAccessConditions =
                [ifMatch |-> Undefined, ifNoneMatch |-> Some("*")]
          /\ pathCalls[1].leaseAccessConditions =
                [ifMatch |-> Undefined, ifNoneMatch |-> Some("*")]
    /\ (pathOp \in {"createIfNotExists", "deleteIfExists"}
            /\ pathPc \in {"done", "failed"}) =>
          LET expected == IF pathOp = "createIfNotExists" THEN "PathAlreadyExists"
                          ELSE "PathNotFound"
          IN  IF LastPathResponse.ok
              THEN pathPc = "done" /\ pathResult.succeeded = Some(TRUE)
              ELSE IF LastPathResponse.error.errorCode = Some(expected)
              THEN pathPc = "done" /\ pathResult.succeeded = Some(FALSE)
              ELSE /\ pathPc = "failed"
                   /\ pathError = LastPathResponse.error
                   /\ ~pathResult.returned

\* createIfNotExists, called with an ifMatch condition, found the path
\* existing.
C29_Witness ==
    /\ pathOp = "createIfNotExists"
    /\ pathArgs.conditions = Some([ifMatch |-> Some("etag"), ifNoneMatch |-> Undefined])
    /\ pathPc = "done"
    /\ pathResult.succeeded = Some(FALSE)

\* C30: delete issues its requests one after the other, the first without
\* a continuation and each following one with the continuation the previous
\* response returned; it stops exactly when a response's continuation is
\* undefined or the empty string and returns that last response; a failed
\* request ends the loop with its error.
C30_DeleteLoop ==
    pathOp = "delete" =>
        /\ Len(pathCalls) - Len(pathResponses) \in {0, 1}
        /\ Len(pathCalls) >= 1 => pathCalls[1].continuation = Undefined
        /\ \A k \in 1..Len(pathCalls) :
                pathCalls[k].op = "delete" /\ pathCalls[k].recursive = pathArgs.recursive
        /\ \A k \in 1..(Len(pathCalls) - 1) :
                /\ pathResponses[k].ok
                /\ pathResponses[k].continuation \notin {Undefined, Some("")}
                /\ pathCalls[k + 1].continuation = pathResponses[k].continuation
        /\ pathPc = "calling" <=> Len(pathCalls) = Len(pathResponses) + 1
        /\ pathPc = "done" =>
                /\ LastPathResponse.ok
                /\ LastPathResponse.continuation \in {Undefined, Some("")}
                /\ pathResult = [returned |-> TRUE, succeeded |-> Undefined,
                                 response |-> Some(LastPathResponse)]
        /\ pathPc = "failed" =>
                /\ ~LastPathResponse.ok
                /\ pathError = LastPathResponse.error

\* A delete ended after three requests, the last response carrying the
\* empty string.
C30_Witness ==
    /\ pathOp = "delete"
    /\ pathPc = "done"
    /\ Len(pathCalls) = 3
    /\ pathCalls[2].continuation = Some("A")
    /\ pathCalls[3].continuation = Some("B")
    /\ LastPathResponse.continuation = Some("")

====
